---- MODULE Spec2Model ----
(***************************************************************************)
(* Model of neverclass' SampQuery (src/sampquery.ts): one UDP query        *)
(* transaction per request() call, with the binary stream codec it uses    *)
(* (./bitstream) and the reply decoders of the four opcodes.               *)
(*                                                                         *)
(* Text is a sequence: an address or opcode is a sequence of one-character *)
(* strings, a decoded text field is a sequence of code points.  An         *)
(* optional value (a property that may be undefined) is a sequence of      *)
(* length 0 or 1.                                                          *)
(***************************************************************************)
EXTENDS Integers, Sequences, FiniteSets, TLC

VARIABLES options, now, tx, facade

vars == <<options, now, tx, facade>>

(***************************************************************************)
(* Bounds of the model.                                                    *)
(***************************************************************************)
\* largest count of records in a generated well-formed reply
MaxCount == 2
\* how many trailing bytes are cut from a well-formed reply to truncate it
MaxCut == 1

(***************************************************************************)
(* Program constants.                                                      *)
(***************************************************************************)
DefaultPort == 7777
DefaultTimeout == 2000
HeaderLength == 11
\* granularity of the clock, in ms
TickMs == 1000

None == <<>>
Some(v) == <<v>>
IsSet(o) == Len(o) = 1
Get(o) == o[1]

\* the value NaN of a JavaScript number
NaN == 0 - 1

(***************************************************************************)
(* JavaScript string helpers.                                              *)
(***************************************************************************)
\* String.prototype.charCodeAt for the characters the model uses
CharCode(c) ==
  CASE c = "S" -> 83 [] c = "A" -> 65 [] c = "M" -> 77 [] c = "P" -> 80
    [] c = "i" -> 105 [] c = "r" -> 114 [] c = "d" -> 100 [] c = "c" -> 99
    [] c = "x" -> 120 [] c = "." -> 46
    [] c = "0" -> 48 [] c = "1" -> 49 [] c = "2" -> 50 [] c = "3" -> 51
    [] c = "4" -> 52 [] c = "5" -> 53 [] c = "6" -> 54 [] c = "7" -> 55
    [] c = "8" -> 56 [] c = "9" -> 57
    [] OTHER -> 63

IsDigit(c) == CharCode(c) >= 48 /\ CharCode(c) <= 57

RECURSIVE SplitFrom(_, _, _, _)
\* s.split(sep): the parts of s between the separators, from position k on,
\* with cur the part being collected
SplitFrom(s, sep, k, cur) ==
  IF k > Len(s) THEN <<cur>>
  ELSE IF s[k] = sep THEN <<cur>> \o SplitFrom(s, sep, k + 1, <<>>)
  ELSE SplitFrom(s, sep, k + 1, Append(cur, s[k]))

Split(s, sep) == SplitFrom(s, sep, 1, <<>>)

RECURSIVE DigitsValue(_, _)
DigitsValue(part, acc) ==
  IF part = <<>> THEN acc
  ELSE DigitsValue(Tail(part), acc * 10 + (CharCode(Head(part)) - 48))

\* unary plus on a string: the empty string is 0, decimal digits are their
\* value, anything else is NaN
ToNumber(part) ==
  IF \A k \in 1..Len(part) : IsDigit(part[k]) THEN DigitsValue(part, 0) ELSE NaN

(***************************************************************************)
(* Binary stream codec (./bitstream).  A BitStream is its buffer, its      *)
(* write offset, its read offset and the error a failed operation threw    *)
(* ("none" while none was thrown).  Once an operation has thrown, the code  *)
(* after it does not run: every later operation leaves the stream as it is. *)
(***************************************************************************)
NewBitStream == [buffer |-> <<>>, writeOffset |-> 0, readOffset |-> 0, error |-> "none"]

\* BitStream.from(buffer)
BitStreamFrom(buffer) ==
  [buffer |-> buffer, writeOffset |-> Len(buffer), readOffset |-> 0, error |-> "none"]

Threw(bs) == bs.error # "none"

\* writeUInt8(value): appends one byte.  What it does with NaN is not
\* specified: strict says whether it throws or stores 0
writeUInt8(bs, value, strict) ==
  IF Threw(bs) THEN bs
  ELSE IF value = NaN
    THEN IF strict THEN [bs EXCEPT !.error = "InvalidValue"]
         ELSE [bs EXCEPT !.buffer = Append(@, 0), !.writeOffset = @ + 1]
  ELSE [bs EXCEPT !.buffer = Append(@, value), !.writeOffset = @ + 1]

RECURSIVE writeString(_, _)
\* writeString(str): appends the character codes, no prefix, no terminator
writeString(bs, str) ==
  IF str = <<>> \/ Threw(bs) THEN bs
  ELSE writeString([bs EXCEPT !.buffer = Append(@, CharCode(Head(str))),
                              !.writeOffset = @ + 1], Tail(str))

getBuffer(bs) == bs.buffer

Remaining(bs) == Len(bs.buffer) - bs.readOffset

\* the byte at read offset + k (k from 0)
ByteAt(bs, k) == bs.buffer[bs.readOffset + k + 1]

\* a read of n bytes: fails with TruncatedBuffer if fewer remain
Truncated(bs) == [value |-> 0, bs |-> [bs EXCEPT !.error = "TruncatedBuffer"]]

readUInt8(bs) ==
  IF Threw(bs) THEN [value |-> 0, bs |-> bs]
  ELSE IF Remaining(bs) < 1 THEN Truncated(bs)
  ELSE [value |-> ByteAt(bs, 0), bs |-> [bs EXCEPT !.readOffset = @ + 1]]

\* little-endian, as the port bytes of the request are
readUInt16(bs) ==
  IF Threw(bs) THEN [value |-> 0, bs |-> bs]
  ELSE IF Remaining(bs) < 2 THEN Truncated(bs)
  ELSE [value |-> ByteAt(bs, 0) + 256 * ByteAt(bs, 1),
        bs |-> [bs EXCEPT !.readOffset = @ + 2]]

readUInt32(bs) ==
  IF Threw(bs) THEN [value |-> 0, bs |-> bs]
  ELSE IF Remaining(bs) < 4 THEN Truncated(bs)
  ELSE [value |-> ByteAt(bs, 0) + 256 * ByteAt(bs, 1) + 65536 * ByteAt(bs, 2)
                    + 16777216 * ByteAt(bs, 3),
        bs |-> [bs EXCEPT !.readOffset = @ + 4]]

\* true iff the byte is not 0
readBoolean(bs) ==
  IF Threw(bs) THEN [value |-> FALSE, bs |-> bs]
  ELSE IF Remaining(bs) < 1 THEN [value |-> FALSE, bs |-> Truncated(bs).bs]
  ELSE [value |-> ByteAt(bs, 0) # 0, bs |-> [bs EXCEPT !.readOffset = @ + 1]]

readBytes(bs, len) ==
  IF Threw(bs) THEN [value |-> <<>>, bs |-> bs]
  ELSE IF Remaining(bs) < len THEN [value |-> <<>>, bs |-> Truncated(bs).bs]
  ELSE [value |-> SubSeq(bs.buffer, bs.readOffset + 1, bs.readOffset + len),
        bs |-> [bs EXCEPT !.readOffset = @ + len]]

\* slice(offset): a reader over the bytes from offset on, its read offset 0
slice(bs, offset) ==
  IF Threw(bs) THEN bs
  ELSE IF offset > Len(bs.buffer) THEN [bs EXCEPT !.error = "InvalidSlice"]
  ELSE BitStreamFrom(SubSeq(bs.buffer, offset + 1, Len(bs.buffer)))

(***************************************************************************)
(* Text decoding (iconv-lite, win1251): one code point per byte.  ASCII    *)
(* maps to itself, 0xC0..0xFF to U+0410..U+044F, 0xA8 and 0xB8 to the two  *)
(* letters outside that block; the model's replies use no other byte.      *)
(***************************************************************************)
Win1251CodePoint(b) ==
  IF b < 128 THEN b
  ELSE IF b >= 192 THEN b + 848
  ELSE IF b = 168 THEN 1025
  ELSE IF b = 184 THEN 1105
  ELSE 65533

decodeWin1251String(str) == [k \in 1..Len(str) |-> Win1251CodePoint(str[k])]

bsReadCP1251String(bs, len) ==
  LET r == readBytes(bs, len)
  IN  [value |-> decodeWin1251String(r.value), bs |-> r.bs]

(***************************************************************************)
(* The request packet (request(), the lines that fill bs).                 *)
(***************************************************************************)
RECURSIVE WriteOctets(_, _, _)
\* for (const v of ip.split('.')) bs.writeUInt8(+v)
WriteOctets(bs, parts, strict) ==
  IF parts = <<>> THEN bs
  ELSE WriteOctets(writeUInt8(bs, ToNumber(Head(parts)), strict), Tail(parts), strict)

\* port & 0xFF and port >> 8 & 0xFF
PortLow(port) == port % 256
PortHigh(port) == (port \div 256) % 256

\* mutant of BuildPacket: the port's high byte is written before its low byte
BuildPacketBigEndianPort(ip, port, opcode, strict) ==
  LET bs1 == writeString(NewBitStream, <<"S", "A", "M", "P">>)
      bs2 == WriteOctets(bs1, Split(ip, "."), strict)
      bs3 == writeUInt8(bs2, PortHigh(port), strict)
      bs4 == writeUInt8(bs3, PortLow(port), strict)
  IN  writeUInt8(bs4, CharCode(opcode), strict)

BuildPacket(ip, port, opcode, strict) ==
  LET bs1 == writeString(NewBitStream, <<"S", "A", "M", "P">>)
      bs2 == WriteOctets(bs1, Split(ip, "."), strict)
      bs3 == writeUInt8(bs2, PortLow(port), strict)
      bs4 == writeUInt8(bs3, PortHigh(port), strict)
  IN  writeUInt8(bs4, CharCode(opcode), strict)

(***************************************************************************)
(* The reply decoders (the message handler of request(), per opcode).      *)
(* Each gives the stream it ends with and the value it built.              *)
(***************************************************************************)
\* mutant of DecodeInfo: the second text field is taken for the language
\* and the third for the game mode
DecodeInfoLanguageFirst(bytes) ==
  LET closed == readBoolean(bytes)
      players == readUInt16(closed.bs)
      maxPlayers == readUInt16(players.bs)
      len1 == readUInt32(maxPlayers.bs)
      serverName == bsReadCP1251String(len1.bs, len1.value)
      len2 == readUInt32(serverName.bs)
      language == bsReadCP1251String(len2.bs, len2.value)
      len3 == readUInt32(language.bs)
      gameModeName == bsReadCP1251String(len3.bs, len3.value)
  IN  [bs |-> gameModeName.bs,
       value |-> [closed |-> closed.value, players |-> players.value,
                  maxPlayers |-> maxPlayers.value, serverName |-> serverName.value,
                  gameModeName |-> gameModeName.value, language |-> language.value]]

DecodeInfo(bytes) ==
  LET closed == readBoolean(bytes)
      players == readUInt16(closed.bs)
      maxPlayers == readUInt16(players.bs)
      len1 == readUInt32(maxPlayers.bs)
      serverName == bsReadCP1251String(len1.bs, len1.value)
      len2 == readUInt32(serverName.bs)
      gameModeName == bsReadCP1251String(len2.bs, len2.value)
      len3 == readUInt32(gameModeName.bs)
      language == bsReadCP1251String(len3.bs, len3.value)
  IN  [bs |-> language.bs,
       value |-> [closed |-> closed.value, players |-> players.value,
                  maxPlayers |-> maxPlayers.value, serverName |-> serverName.value,
                  gameModeName |-> gameModeName.value, language |-> language.value]]

RECURSIVE RulesLoop(_, _, _, _)
\* for (let i = 0; i < count; i++) { name, value; push }
RulesLoop(bytes, i, count, rulesResult) ==
  IF Threw(bytes) \/ ~(i < count) THEN [bs |-> bytes, value |-> rulesResult]
  ELSE LET len1 == readUInt8(bytes)
           name == bsReadCP1251String(len1.bs, len1.value)
           len2 == readUInt8(name.bs)
           value == bsReadCP1251String(len2.bs, len2.value)
       IN  IF Threw(value.bs) THEN [bs |-> value.bs, value |-> rulesResult]
           ELSE RulesLoop(value.bs, i + 1, count,
                          Append(rulesResult, [name |-> name.value, value |-> value.value]))

\* mutant of DecodeRules: the count is read as one byte
DecodeRulesByteCount(bytes) ==
  LET count == readUInt8(bytes)
  IN  RulesLoop(count.bs, 0, count.value, <<>>)

DecodeRules(bytes) ==
  LET count == readUInt16(bytes)
  IN  RulesLoop(count.bs, 0, count.value, <<>>)

RECURSIVE PlayersDetailedLoop(_, _, _)
\* for (let i = 0; i < bytes.readUInt16(); i++) { id, name, score, ping; push }:
\* the loop condition reads a uint16 each time it is evaluated
PlayersDetailedLoop(bytes, i, playersResult) ==
  LET count == readUInt16(bytes)
  IN  IF Threw(count.bs) \/ ~(i < count.value)
        THEN [bs |-> count.bs, value |-> playersResult]
      ELSE LET id == readUInt8(count.bs)
               len == readUInt8(id.bs)
               name == bsReadCP1251String(len.bs, len.value)
               score == readUInt32(name.bs)
               ping == readUInt32(score.bs)
           IN  IF Threw(ping.bs) THEN [bs |-> ping.bs, value |-> playersResult]
               ELSE PlayersDetailedLoop(ping.bs, i + 1,
                      Append(playersResult, [id |-> id.value, name |-> name.value,
                                             score |-> score.value, ping |-> ping.value]))

\* mutant of DecodePlayersDetailed: a list of no records is taken for a
\* reply that ends too early
DecodePlayersDetailedAtLeastOne(bytes) ==
  IF readUInt16(bytes).value = 0 THEN [bs |-> Truncated(bytes).bs, value |-> <<>>]
  ELSE PlayersDetailedLoop(bytes, 0, <<>>)

DecodePlayersDetailed(bytes) == PlayersDetailedLoop(bytes, 0, <<>>)

RECURSIVE PlayersLoop(_, _, _)
\* for (let i = 0; i < bytes.readUInt16(); i++) { name, score; push }
PlayersLoop(bytes, i, playersStatsResult) ==
  LET count == readUInt16(bytes)
  IN  IF Threw(count.bs) \/ ~(i < count.value)
        THEN [bs |-> count.bs, value |-> playersStatsResult]
      ELSE LET len == readUInt8(count.bs)
               name == bsReadCP1251String(len.bs, len.value)
               score == readUInt32(name.bs)
           IN  IF Threw(score.bs) THEN [bs |-> score.bs, value |-> playersStatsResult]
               ELSE PlayersLoop(score.bs, i + 1,
                      Append(playersStatsResult, [name |-> name.value, score |-> score.value]))

DecodePlayers(bytes) == PlayersLoop(bytes, 0, <<>>)

\* the body of the message handler after socket.close(): what it does with
\* the promise.  "resolve" with the decoded value, "throw" with the error the
\* codec threw (the catch block rejects with it), or "none" when no branch
\* of the if chain matches the opcode
DecodeReply(opcode, message) ==
  LET bytes == slice(BitStreamFrom(message), HeaderLength)
      Outcome(d) == IF Threw(d.bs) THEN [kind |-> "throw", error |-> d.bs.error, value |-> <<>>]
                    ELSE [kind |-> "resolve", error |-> "none", value |-> d.value]
  IN  IF Threw(bytes) THEN [kind |-> "throw", error |-> bytes.error, value |-> <<>>]
      ELSE IF opcode = "i" THEN Outcome(DecodeInfo(bytes))
      ELSE IF opcode = "r" THEN Outcome(DecodeRules(bytes))
      ELSE IF opcode = "d" THEN Outcome(DecodePlayersDetailed(bytes))
      ELSE IF opcode = "c" THEN Outcome(DecodePlayers(bytes))
      ELSE [kind |-> "none", error |-> "none", value |-> <<>>]

(***************************************************************************)
(* The replies a server may send: the wire format of the four opcodes,     *)
(* built from small sets of values, the same replies with their last bytes *)
(* cut off, and datagrams shorter than the header.                         *)
(***************************************************************************)
UInt16Bytes(v) == <<v % 256, (v \div 256) % 256>>
UInt32Bytes(v) == <<v % 256, (v \div 256) % 256, (v \div 65536) % 256, (v \div 16777216) % 256>>
Text8(str) == <<Len(str)>> \o str
Text32(str) == UInt32Bytes(Len(str)) \o str

RECURSIVE Concat(_)
Concat(seqs) == IF seqs = <<>> THEN <<>> ELSE Head(seqs) \o Concat(Tail(seqs))

SeqsUpTo(S, n) == UNION {[1..k -> S] : k \in 0..n}

\* the 11 bytes a reply starts with (the echo of a request)
EchoHeader == <<83, 65, 77, 80, 10, 0, 0, 7, 200, 34, 105>>

InfoValues ==
  {[closed |-> 0, players |-> 12, maxPlayers |-> 32, serverName |-> <<84, 101>>,
    gameModeName |-> <<68, 77>>, language |-> <<69, 78>>],
   [closed |-> 2, players |-> 300, maxPlayers |-> 1000, serverName |-> <<192, 168>>,
    gameModeName |-> <<>>, language |-> <<82>>]}

RuleValues ==
  {[name |-> <<109, 97>>, value |-> <<76, 83>>], [name |-> <<119>>, value |-> <<>>]}

PlayerValues ==
  {[id |-> 1, name |-> <<65>>, score |-> 5, ping |-> 30],
   [id |-> 7, name |-> <<209, 66>>, score |-> 70000, ping |-> 300]}

InfoPayload(v) ==
  <<v.closed>> \o UInt16Bytes(v.players) \o UInt16Bytes(v.maxPlayers)
    \o Text32(v.serverName) \o Text32(v.gameModeName) \o Text32(v.language)

RulesPayload(rules) ==
  UInt16Bytes(Len(rules))
    \o Concat([k \in 1..Len(rules) |-> Text8(rules[k].name) \o Text8(rules[k].value)])

PlayersDetailedPayload(players) ==
  UInt16Bytes(Len(players))
    \o Concat([k \in 1..Len(players) |->
                 <<players[k].id>> \o Text8(players[k].name)
                   \o UInt32Bytes(players[k].score) \o UInt32Bytes(players[k].ping)])

PlayersPayload(players) ==
  UInt16Bytes(Len(players))
    \o Concat([k \in 1..Len(players) |->
                 Text8(players[k].name) \o UInt32Bytes(players[k].score)])

\* what a correct decoder makes of the values a payload was built from
InfoResult(v) ==
  [closed |-> v.closed # 0, players |-> v.players, maxPlayers |-> v.maxPlayers,
   serverName |-> decodeWin1251String(v.serverName),
   gameModeName |-> decodeWin1251String(v.gameModeName),
   language |-> decodeWin1251String(v.language)]
RulesResult(rules) ==
  [k \in 1..Len(rules) |-> [name |-> decodeWin1251String(rules[k].name),
                            value |-> decodeWin1251String(rules[k].value)]]
PlayersDetailedResult(players) ==
  [k \in 1..Len(players) |-> [id |-> players[k].id,
                              name |-> decodeWin1251String(players[k].name),
                              score |-> players[k].score, ping |-> players[k].ping]]
PlayersResult(players) ==
  [k \in 1..Len(players) |-> [name |-> decodeWin1251String(players[k].name),
                              score |-> players[k].score]]

WellFormedPayloads(opcode) ==
  IF opcode = "i" THEN {InfoPayload(v) : v \in InfoValues}
  ELSE IF opcode = "r" THEN {RulesPayload(q) : q \in SeqsUpTo(RuleValues, MaxCount)}
  ELSE IF opcode = "d"
    THEN {PlayersDetailedPayload(q) : q \in SeqsUpTo(PlayerValues, MaxCount)}
  ELSE IF opcode = "c" THEN {PlayersPayload(q) : q \in SeqsUpTo(PlayerValues, MaxCount)}
  ELSE {}

WellFormedReplies == {EchoHeader \o p : p \in UNION {WellFormedPayloads(o) : o \in {"i", "r", "d", "c"}}}

TruncatedReplies ==
  {SubSeq(m, 1, Len(m) - cut) : m \in WellFormedReplies, cut \in 1..MaxCut}

ShortDatagrams == {SubSeq(EchoHeader, 1, k) : k \in 0..(HeaderLength - 1)}

Datagrams == WellFormedReplies \cup TruncatedReplies \cup ShortDatagrams

(***************************************************************************)
(* The inputs of request() and of the constructor.                         *)
(***************************************************************************)
Opcodes == {"i", "r", "d", "c"}
\* an opcode outside the type, as a caller without type checking may give
AnyOpcodes == Opcodes \cup {"x"}

Loopback == <<"1", "2", "7", ".", "0", ".", "0", ".", "1">>
ValidAddresses == {<<"1", "0", ".", "0", ".", "0", ".", "7">>,
                   <<"1", "9", "2", ".", "1", "6", "8", ".", "1", ".", "2", "5", "5">>}
MalformedAddresses == {<<"1", ".", "2", ".", "3">>,
                       <<"1", ".", "2", ".", "3", ".", "4", ".", "5">>,
                       <<"1", ".", "x", ".", "3", ".", "4">>}
\* what dns.resolve may answer with
ResolvedAddresses == {<<"1", "0", ".", "0", ".", "0", ".", "7">>}

RequestOptions ==
  [ip : {None} \cup {Some(a) : a \in ValidAddresses \cup MalformedAddresses},
   port : {None, Some(0), Some(256), Some(8904), Some(65535)},
   timeout : {None, Some(1000)},
   resolveHost : {None, Some(TRUE)},
   opcode : AnyOpcodes]

\* what the constructor may be given
InstanceOptions ==
  {[ip |-> None, port |-> None, timeout |-> None, resolveHost |-> None],
   [ip |-> Some(<<"1", "0", ".", "0", ".", "0", ".", "7">>), port |-> Some(256),
    timeout |-> Some(3000), resolveHost |-> None]}

\* the options of the calls that are followed only up to the end of
\* request()'s synchronous part: absent, falsy and out-of-range values too
CallOptions ==
  [ip : {None, Some(<<>>), Some(<<"1", "0", ".", "0", ".", "0", ".", "7">>)},
   port : {None, Some(0), Some(8904), Some(65535), Some(65536), Some(73313)},
   timeout : {None, Some(0), Some(1000)},
   resolveHost : {None, Some(FALSE), Some(TRUE)},
   opcode : {"i", "d"}]

CallInstanceOptions ==
  InstanceOptions \cup
  {[ip |-> Some(<<"1", "9", "2", ".", "1", "6", "8", ".", "1", ".", "2", "5", "5">>),
    port |-> Some(0), timeout |-> Some(0), resolveHost |-> Some(TRUE)],
   [ip |-> Some(<<>>), port |-> Some(8904), timeout |-> Some(1000),
    resolveHost |-> Some(FALSE)]}

\* the transactions of the model: the one whose inputs are drawn from all of
\* RequestOptions, and the slots of every call of request() a run may make
Tx == {1}
AllTx == {1, 2, 3}

(***************************************************************************)
(* One transaction: the state of one call of request().                    *)
(***************************************************************************)
PendingPromise == [state |-> "pending", kind |-> "none", value |-> <<>>, settledAt |-> 0]

Idle ==
  [pc |-> "idle", given |-> None, ip |-> <<>>, port |-> 0, timeout |-> 0, opcode |-> "i",
   socket |-> "none", closeCalls |-> 0, packet |-> <<>>,
   send |-> "none", sentTo |-> [ip |-> <<>>, port |-> 0],
   controller |-> "none", armedAt |-> 0, listener |-> "none", received |-> None,
   promise |-> PendingPromise, uncaught |-> FALSE, lookups |-> 0]

\* resolve(value): settles a pending promise, does nothing to a settled one
resolve(r, value, time) ==
  IF r.promise.state # "pending" THEN r
  ELSE [r EXCEPT !.promise = [state |-> "resolved", kind |-> "result",
                              value |-> value, settledAt |-> time]]

\* mutant of reject: a later rejection replaces the outcome
rejectOverwrites(r, kind, value, time) ==
  [r EXCEPT !.promise = [state |-> "rejected", kind |-> kind,
                         value |-> value, settledAt |-> time]]

\* reject(reason): settles a pending promise, does nothing to a settled one
reject(r, kind, value, time) ==
  IF r.promise.state # "pending" THEN r
  ELSE [r EXCEPT !.promise = [state |-> "rejected", kind |-> kind,
                              value |-> value, settledAt |-> time]]

\* socket.close(): closes an open socket; on a socket already closed it
\* throws (ERR_SOCKET_DGRAM_NOT_RUNNING)
CloseThrows(r) == r.socket # "open"
close(r) ==
  IF CloseThrows(r) THEN [r EXCEPT !.closeCalls = @ + 1]
  ELSE [r EXCEPT !.socket = "closed", !.closeCalls = @ + 1]

\* mutant of Effective: the instance's options take precedence over the call's
EffectiveInstanceFirst(opts) ==
  LET ip == IF IsSet(options.ip) THEN options.ip ELSE opts.ip
      port == IF IsSet(options.port) THEN options.port ELSE opts.port
      timeout == IF IsSet(options.timeout) THEN options.timeout ELSE opts.timeout
      resolveHost == IF IsSet(options.resolveHost) THEN options.resolveHost ELSE opts.resolveHost
  IN  [ip |-> IF ~IsSet(ip) \/ Get(ip) = <<>> THEN Loopback ELSE Get(ip),
       port |-> IF ~IsSet(port) \/ Get(port) = 0 THEN DefaultPort ELSE Get(port),
       timeout |-> IF ~IsSet(timeout) \/ Get(timeout) = 0 THEN DefaultTimeout ELSE Get(timeout),
       resolveHost |-> IF ~IsSet(resolveHost) THEN FALSE ELSE Get(resolveHost)]

\* the values request() works with: a per-call option if given, else the
\* instance's, else (when that is falsy) the default
Effective(opts) ==
  LET ip == IF IsSet(opts.ip) THEN opts.ip ELSE options.ip
      port == IF IsSet(opts.port) THEN opts.port ELSE options.port
      timeout == IF IsSet(opts.timeout) THEN opts.timeout ELSE options.timeout
      resolveHost == IF IsSet(opts.resolveHost) THEN opts.resolveHost ELSE options.resolveHost
  IN  [ip |-> IF ~IsSet(ip) \/ Get(ip) = <<>> THEN Loopback ELSE Get(ip),
       port |-> IF ~IsSet(port) \/ Get(port) = 0 THEN DefaultPort ELSE Get(port),
       timeout |-> IF ~IsSet(timeout) \/ Get(timeout) = 0 THEN DefaultTimeout ELSE Get(timeout),
       resolveHost |-> IF ~IsSet(resolveHost) THEN FALSE ELSE Get(resolveHost)]

\* socket.send(..., port, ip, ...) throws at once (ERR_SOCKET_BAD_PORT) for a
\* port that is not of 1..65535
SendThrows(port) == port < 1 \/ port > 65535

\* request() from createSocket to return promise, for the address ip: the
\* socket, the packet, the send, the timer and the message listener.  If
\* building the packet or the send throws, the call ends there, rejected

Setup(r, ip, strict, time) ==
  LET bs == BuildPacket(ip, r.port, r.opcode, strict)
      opened == [r EXCEPT !.ip = ip, !.socket = "open"]
  IN  IF Threw(bs) THEN [reject(opened, bs.error, <<>>, time) EXCEPT !.pc = "threw"]
      ELSE IF SendThrows(r.port)
        THEN [reject(opened, "BadPort", <<>>, time) EXCEPT !.pc = "threw",
                                                          !.packet = getBuffer(bs)]
      ELSE [opened EXCEPT !.pc = "running", !.packet = getBuffer(bs),
                          !.send = "pending", !.sentTo = [ip |-> ip, port |-> r.port],
                          !.controller = "armed", !.armedAt = time,
                          !.listener = "once"]

\* mutant of RequestCall: the address is resolved whatever resolveHost is
RequestCallAlwaysResolves(idle, opts, strict, time) ==
  LET e == Effective(opts)
      r == [idle EXCEPT !.given = Some(opts), !.ip = e.ip, !.port = e.port,
                        !.timeout = e.timeout, !.opcode = opts.opcode]
  IN  [r EXCEPT !.pc = "resolving", !.lookups = @ + 1]

\* request(opts) up to the first suspension: resolveDns is called, and
\* awaited, only if resolveHost is true
RequestCall(idle, opts, strict, time) ==
  LET e == Effective(opts)
      r == [idle EXCEPT !.given = Some(opts), !.ip = e.ip, !.port = e.port,
                        !.timeout = e.timeout, !.opcode = opts.opcode]
  IN  IF e.resolveHost THEN [r EXCEPT !.pc = "resolving", !.lookups = @ + 1]
      ELSE Setup(r, e.ip, strict, time)

Request(t) ==
  /\ tx[t].pc = "idle"
  /\ \E opts \in RequestOptions, strict \in BOOLEAN :
       tx' = [tx EXCEPT ![t] = RequestCall(@, opts, strict, now)]
  /\ UNCHANGED <<options, now, facade>>

\* await resolveDns(ip) fails: request() rejects with the resolver's error
ResolveFails(t) ==
  /\ tx[t].pc = "resolving"
  /\ tx' = [tx EXCEPT ![t] = [reject(@, "ResolveError", <<>>, now) EXCEPT !.pc = "threw"]]
  /\ UNCHANGED <<options, now, facade>>

\* await resolveDns(ip) answers: request() goes on with the first address
ResolveDone(t) ==
  /\ tx[t].pc = "resolving"
  /\ \E address \in ResolvedAddresses, strict \in BOOLEAN :
       tx' = [tx EXCEPT ![t] = Setup(@, address, strict, now)]
  /\ UNCHANGED <<options, now, facade>>

\* the callback of socket.send without an error
SendSucceeds(t) ==
  /\ tx[t].send = "pending"
  /\ tx' = [tx EXCEPT ![t].send = "ok"]
  /\ UNCHANGED <<options, now, facade>>

\* the callback of socket.send with an error: reject(err); socket.close()
SendCallbackErr(r, time) ==
  LET rejected == reject([r EXCEPT !.send = "failed"], "SendError", <<>>, time)
  IN  IF CloseThrows(rejected) THEN [close(rejected) EXCEPT !.uncaught = TRUE]
      ELSE close(rejected)

SendFails(t) ==
  /\ tx[t].send = "pending"
  /\ tx' = [tx EXCEPT ![t] = SendCallbackErr(@, now)]
  /\ UNCHANGED <<options, now, facade>>

\* mutant of TimeoutCallback: the error names the instance's address and
\* port, as the handler's error for a short message does
TimeoutCallbackInstanceTarget(r, time) ==
  LET fired == [r EXCEPT !.controller = "fired"]
  IN  IF CloseThrows(fired) THEN [close(fired) EXCEPT !.uncaught = TRUE]
      ELSE reject(close(fired), "HostUnavailable",
                  [ip |-> IF IsSet(options.ip) THEN Get(options.ip) ELSE <<>>,
                   port |-> IF IsSet(options.port) THEN Get(options.port) ELSE 0], time)

\* the callback of setTimeout: socket.close(); reject(host unavailable)
TimeoutCallback(r, time) ==
  LET fired == [r EXCEPT !.controller = "fired"]
  IN  IF CloseThrows(fired) THEN [close(fired) EXCEPT !.uncaught = TRUE]
      ELSE reject(close(fired), "HostUnavailable", [ip |-> r.ip, port |-> r.port], time)

\* mutant of Timeout: the socket is kept in the instance's socket property, which
\* the calls share, so the callback closes the sockets of the other calls too
TimeoutOnSharedSocket(t) ==
  /\ tx[t].controller = "armed"
  /\ now >= tx[t].armedAt + tx[t].timeout
  /\ tx' = [u \in AllTx |-> IF u = t THEN TimeoutCallback(tx[u], now)
                            ELSE IF tx[u].socket = "open" THEN close(tx[u])
                            ELSE tx[u]]
  /\ UNCHANGED <<options, now, facade>>

Timeout(t) ==
  /\ tx[t].controller = "armed"
  /\ now >= tx[t].armedAt + tx[t].timeout
  /\ tx' = [tx EXCEPT ![t] = TimeoutCallback(@, now)]
  /\ UNCHANGED <<options, now, facade>>

\* mutant of clearTimeout: the handler leaves the timer armed
clearTimeoutForgotten(r) == r

\* clearTimeout(controller): a timer still armed never fires
clearTimeout(r) == [r EXCEPT !.controller = IF @ = "armed" THEN "cleared" ELSE @]

\* mutant of TooShort: the length check is off by one
TooShortOffByOne(message) == Len(message) < HeaderLength - 1

\* message.length < 11
TooShort(message) == Len(message) < HeaderLength

\* the listener of socket.once('message'); it runs with the socket open
MessageHandler(r, message, time) ==
  LET cleared == clearTimeout([r EXCEPT !.listener = "removed", !.received = Some(message)])
  IN  IF TooShort(message)
        THEN reject(cleared, "InvalidMessage",
                    [ip |-> options.ip, port |-> options.port], time)
      ELSE LET closed == close(cleared)
               d == DecodeReply(r.opcode, message)
           IN  IF d.kind = "resolve" THEN resolve(closed, d.value, time)
               ELSE IF d.kind = "throw" THEN reject(closed, d.error, <<>>, time)
               ELSE closed

\* a datagram of D arrives on the open socket while its listener is registered
Deliver(t, D) ==
  /\ tx[t].socket = "open"
  /\ tx[t].listener = "once"
  /\ \E message \in D :
       tx' = [tx EXCEPT ![t] = MessageHandler(@, message, now)]
  /\ UNCHANGED <<options, now, facade>>

Message(t) == Deliver(t, Datagrams)

\* time passes while a timer is waiting for it
Tick ==
  /\ \E t \in AllTx : tx[t].controller = "armed" /\ now < tx[t].armedAt + tx[t].timeout
  /\ now' = now + TickMs
  /\ UNCHANGED <<options, tx, facade>>

\* getServer() before it is called
FacadeIdle == [pc |-> "idle", given |-> None, awaiting |-> 0, promise |-> PendingPromise]

Init ==
  /\ options \in InstanceOptions
  /\ now = 0
  /\ tx = [t \in AllTx |-> Idle]
  /\ facade = FacadeIdle

Next ==
  \/ \E t \in Tx : Request(t)
  \/ \E t \in Tx : ResolveFails(t)
  \/ \E t \in Tx : ResolveDone(t)
  \/ \E t \in Tx : SendSucceeds(t)
  \/ \E t \in Tx : SendFails(t)
  \/ \E t \in Tx : Timeout(t)
  \/ \E t \in Tx : Message(t)
  \/ Tick

Spec == Init /\ [][Next]_vars

\* the event loop runs every callback that is due: time passes, an armed
\* timer whose delay has elapsed fires, a pending send completes, a pending
\* name resolution answers
FairSpec ==
  /\ Spec
  /\ WF_vars(Tick)
  /\ \A t \in Tx : WF_vars(Timeout(t))
  /\ \A t \in Tx : WF_vars(SendSucceeds(t) \/ SendFails(t))
  /\ \A t \in Tx : WF_vars(ResolveFails(t) \/ ResolveDone(t))

\* request() called with any of CallOptions
RequestAny(t) ==
  /\ tx[t].pc = "idle"
  /\ \E opts \in CallOptions, strict \in BOOLEAN :
       tx' = [tx EXCEPT ![t] = RequestCall(@, opts, strict, now)]
  /\ UNCHANGED <<options, now, facade>>

CallInit ==
  /\ options \in CallInstanceOptions
  /\ now = 0
  /\ tx = [t \in AllTx |-> Idle]
  /\ facade = FacadeIdle

CallNext ==
  \/ \E t \in Tx : RequestAny(t)
  \/ \E t \in Tx : ResolveFails(t)
  \/ \E t \in Tx : ResolveDone(t)

\* request() up to the end of its synchronous part, over all of CallOptions
CallSpec == CallInit /\ [][CallNext]_vars

(***************************************************************************)
(* getServer(): three calls of request(), each awaited before the next is  *)
(* made.  The transactions are the slots 1, 2, 3 in the order of the       *)
(* object literal's properties: info, rules, players.                     *)
(***************************************************************************)
FacadeOptions ==
  [ip : {None}, port : {None, Some(8904)}, timeout : {None},
   resolveHost : {None, Some(TRUE)}]

FacadeOpcodes == <<"i", "r", "d">>

FacadeDatagrams ==
  {SubSeq(EchoHeader, 1, 5), EchoHeader \o <<0, 0>>,
   EchoHeader \o InfoPayload([closed |-> 0, players |-> 12, maxPlayers |-> 32,
                              serverName |-> <<84, 101>>, gameModeName |-> <<68, 77>>,
                              language |-> <<69, 78>>]),
   EchoHeader \o RulesPayload(<<[name |-> <<119>>, value |-> <<>>]>>)}

\* {...options, opcode}
WithOpcode(opts, opcode) ==
  [ip |-> opts.ip, port |-> opts.port, timeout |-> opts.timeout,
   resolveHost |-> opts.resolveHost, opcode |-> opcode]

\* mutant of GetServer: the three requests are made at once and awaited later
GetServerAllAtOnce ==
  /\ facade.pc = "idle"
  /\ \E opts \in FacadeOptions, strict \in BOOLEAN :
       /\ tx' = [t \in AllTx |-> RequestCall(tx[t], WithOpcode(opts, FacadeOpcodes[t]),
                                             strict, now)]
       /\ facade' = [facade EXCEPT !.pc = "awaiting", !.given = Some(opts), !.awaiting = 1]
  /\ UNCHANGED <<options, now>>

\* getServer(options) up to its first await: request({...options, opcode: 'i'})
GetServer ==
  /\ facade.pc = "idle"
  /\ \E opts \in FacadeOptions, strict \in BOOLEAN :
       /\ tx' = [tx EXCEPT ![1] = RequestCall(@, WithOpcode(opts, FacadeOpcodes[1]),
                                              strict, now)]
       /\ facade' = [facade EXCEPT !.pc = "awaiting", !.given = Some(opts), !.awaiting = 1]
  /\ UNCHANGED <<options, now>>

\* getServer() resumes when the request it awaits has settled: a rejection is
\* thrown out of getServer(), a result is kept and the next request is made,
\* and after the third the object of the three results is returned
GetServerAwait ==
  /\ facade.pc = "awaiting"
  /\ LET k == facade.awaiting
         awaited == tx[k].promise
     IN  /\ awaited.state # "pending"
         /\ IF awaited.state = "rejected"
              THEN /\ facade' = [facade EXCEPT !.pc = "done",
                                    !.promise = [state |-> "rejected", kind |-> awaited.kind,
                                                 value |-> awaited.value, settledAt |-> now]]
                   /\ UNCHANGED tx
            ELSE IF k < Len(FacadeOpcodes)
              THEN /\ \E strict \in BOOLEAN :
                        tx' = [tx EXCEPT ![k + 1] =
                                 RequestCall(@, WithOpcode(Get(facade.given), FacadeOpcodes[k + 1]),
                                             strict, now)]
                   /\ facade' = [facade EXCEPT !.awaiting = k + 1]
            ELSE /\ facade' = [facade EXCEPT !.pc = "done",
                                  !.promise = [state |-> "resolved", kind |-> "result",
                                               value |-> [info |-> tx[1].promise.value,
                                                          rules |-> tx[2].promise.value,
                                                          players |-> tx[3].promise.value],
                                               settledAt |-> now]]
                 /\ UNCHANGED tx
  /\ UNCHANGED <<options, now>>

GetServerNext ==
  \/ GetServer
  \/ GetServerAwait
  \/ \E t \in AllTx : ResolveFails(t)
  \/ \E t \in AllTx : ResolveDone(t)
  \/ \E t \in AllTx : SendSucceeds(t)
  \/ \E t \in AllTx : SendFails(t)
  \/ \E t \in AllTx : Timeout(t)
  \/ \E t \in AllTx : Deliver(t, FacadeDatagrams)
  \/ Tick

GetServerSpec == Init /\ [][GetServerNext]_vars

\* two calls of request() on one instance, in any interleaving
ConcTx == {1, 2}

ConcOptions ==
  [ip : {None}, port : {None, Some(8904)}, timeout : {None, Some(1000)},
   resolveHost : {None}, opcode : {"i", "c"}]

ConcDatagrams ==
  {SubSeq(EchoHeader, 1, 5), EchoHeader \o <<0, 0>>,
   EchoHeader \o InfoPayload([closed |-> 0, players |-> 12, maxPlayers |-> 32,
                              serverName |-> <<84, 101>>, gameModeName |-> <<68, 77>>,
                              language |-> <<69, 78>>])}

RequestConc(t) ==
  /\ tx[t].pc = "idle"
  /\ \E opts \in ConcOptions, strict \in BOOLEAN :
       tx' = [tx EXCEPT ![t] = RequestCall(@, opts, strict, now)]
  /\ UNCHANGED <<options, now, facade>>

ConcNext ==
  \/ \E t \in ConcTx : RequestConc(t)
  \/ \E t \in ConcTx : SendSucceeds(t)
  \/ \E t \in ConcTx : SendFails(t)
  \/ \E t \in ConcTx : Timeout(t)
  \/ \E t \in ConcTx : Deliver(t, ConcDatagrams)
  \/ Tick

ConcSpec == Init /\ [][ConcNext]_vars

(***************************************************************************)
(* Vocabulary of the properties.                                           *)
(***************************************************************************)
\* the packet went out: the transaction is past request()'s synchronous part
Started(t) == tx[t].pc = "running"

\* no callback of the transaction can run any more
Quiescent(t) ==
  /\ Started(t)
  /\ tx[t].send # "pending"
  /\ tx[t].controller # "armed"
  /\ ~(tx[t].socket = "open" /\ tx[t].listener = "once")

Settled(t) == tx[t].promise.state # "pending"

Received(t) == IsSet(tx[t].received)
Datagram(t) == Get(tx[t].received)

\* four parts, each a decimal number of 0..255
IsDottedQuad(ip) ==
  LET parts == Split(ip, ".")
  IN  /\ Len(parts) = 4
      /\ \A k \in 1..4 : /\ parts[k] # <<>>
                         /\ Len(parts[k]) <= 3
                         /\ ToNumber(parts[k]) # NaN
                         /\ ToNumber(parts[k]) <= 255

\* the octets of the addresses the model uses, written out
Octets(ip) ==
  CASE ip = Loopback -> <<127, 0, 0, 1>>
    [] ip = <<"1", "0", ".", "0", ".", "0", ".", "7">> -> <<10, 0, 0, 7>>
    [] ip = <<"1", "9", "2", ".", "1", "6", "8", ".", "1", ".", "2", "5", "5">>
         -> <<192, 168, 1, 255>>
    [] OTHER -> <<>>

(***************************************************************************)
(* C1: on every terminal path of a started transaction the socket is       *)
(* closed exactly once: close() is never called twice, and once no         *)
(* callback can run any more it has been called.                           *)
(***************************************************************************)
C1_ClosedExactlyOnce ==
  \A t \in Tx :
    /\ tx[t].closeCalls <= 1
    /\ Quiescent(t) => tx[t].closeCalls = 1

(***************************************************************************)
(* C2: the message handler and the timeout callback never both run; after  *)
(* the handler ran the timer is not armed, after the timeout callback ran  *)
(* the socket is not open, and an outcome either of them produced finds    *)
(* the other one disabled.                                                 *)
(***************************************************************************)
C2_RaceExclusive ==
  \A t \in Tx :
    /\ ~(tx[t].listener = "removed" /\ tx[t].controller = "fired")
    /\ tx[t].listener = "removed" => tx[t].controller = "cleared"
    /\ tx[t].controller = "fired" => tx[t].socket = "closed" /\ ~Received(t)
    /\ tx[t].promise.kind = "HostUnavailable" => tx[t].socket = "closed"
    /\ tx[t].promise.kind \in {"result", "InvalidMessage"} => tx[t].controller = "cleared"

C2_Witness ==
  \E t \in Tx : /\ tx[t].listener = "removed"
                /\ tx[t].controller = "cleared"
                /\ tx[t].promise.state = "resolved"
                /\ now >= tx[t].armedAt + tx[t].timeout

(***************************************************************************)
(* C3: when the send has succeeded and no datagram has arrived, the        *)
(* transaction eventually fails with the host-unavailable error unless a   *)
(* datagram arrives first; that error is never produced before the timeout *)
(* has elapsed since the timer was armed, it carries the address and port  *)
(* the packet was sent to, and with it the socket is closed, exactly once   *)
(* if the send did not fail.                                               *)
(***************************************************************************)
C3_HostUnavailableShape ==
  \A t \in Tx :
    tx[t].promise.kind = "HostUnavailable" =>
      /\ tx[t].promise.state = "rejected"
      /\ tx[t].promise.settledAt >= tx[t].armedAt + tx[t].timeout
      /\ tx[t].promise.value = tx[t].sentTo
      /\ tx[t].promise.value = [ip |-> tx[t].ip, port |-> tx[t].port]
      /\ tx[t].socket = "closed"
      /\ tx[t].send = "ok" => tx[t].closeCalls = 1

C3_TimeoutFailsHostUnavailable ==
  /\ []C3_HostUnavailableShape
  /\ \A t \in Tx :
       (Started(t) /\ tx[t].send = "ok" /\ ~Received(t))
         ~> (Received(t) \/ tx[t].promise.kind = "HostUnavailable")

C3_Witness ==
  \E t \in Tx : /\ tx[t].promise.kind = "HostUnavailable"
                /\ tx[t].send = "ok"
                /\ ~Received(t)
                /\ tx[t].closeCalls = 1
                /\ Get(tx[t].given).port = Some(8904)
                /\ tx[t].promise.settledAt = tx[t].armedAt + tx[t].timeout

(***************************************************************************)
(* C4: whatever the opcode, a received datagram shorter than 11 bytes      *)
(* makes request() reject with the invalid-message error: the promise is   *)
(* neither resolved nor rejected with host unavailable.                    *)
(***************************************************************************)
C4_ShortReplyRejected ==
  \A t \in Tx :
    (Received(t) /\ Len(Datagram(t)) < 11) =>
      /\ tx[t].promise.state = "rejected"
      /\ tx[t].promise.kind = "InvalidMessage"

C4_Witness ==
  \E t \in Tx : /\ Received(t)
                /\ Len(Datagram(t)) = 10
                /\ tx[t].opcode = "d"
                /\ tx[t].promise.kind = "InvalidMessage"

(***************************************************************************)
(* C5: for opcodes d and c, a well-formed reply of n records makes         *)
(* request() resolve with exactly those n records, in wire order.          *)
(***************************************************************************)
C5_PlayersDecoded ==
  \A t \in Tx : \A q \in SeqsUpTo(PlayerValues, MaxCount) :
    /\ (tx[t].opcode = "d" /\ tx[t].received = Some(EchoHeader \o PlayersDetailedPayload(q)))
         => /\ tx[t].promise.state = "resolved"
            /\ tx[t].promise.value = PlayersDetailedResult(q)
    /\ (tx[t].opcode = "c" /\ tx[t].received = Some(EchoHeader \o PlayersPayload(q)))
         => /\ tx[t].promise.state = "resolved"
            /\ tx[t].promise.value = PlayersResult(q)

(***************************************************************************)
(* C6: every transaction settles: once none of its callbacks can run any   *)
(* more, its promise is resolved or rejected.                              *)
(***************************************************************************)
C6_EventuallySettles ==
  \A t \in Tx : Quiescent(t) => Settled(t)

(***************************************************************************)
(* C7: no callback of a transaction throws an error that nothing catches.  *)
(***************************************************************************)
C7_NoUncaughtError ==
  \A t \in Tx : ~tx[t].uncaught

(***************************************************************************)
(* C8: a reply of at least 11 bytes whose decoding fails makes request()   *)
(* reject with the same error kind as a reply that is too short, never     *)
(* with the error the codec threw.                                         *)
(***************************************************************************)
C8_DecodeErrorIsMalformedResponse ==
  \A t \in Tx :
    (Received(t) /\ Len(Datagram(t)) >= 11 /\ tx[t].promise.state = "rejected")
      => tx[t].promise.kind = "InvalidMessage"

(***************************************************************************)
(* C9: an address that is not four numeric octets makes request() fail     *)
(* with an invalid-argument error, with no socket created and no packet    *)
(* sent.                                                                   *)
(***************************************************************************)
C9_MalformedAddressRejected ==
  \A t \in Tx :
    (tx[t].pc \in {"running", "threw"} /\ tx[t].promise.kind # "ResolveError"
       /\ ~IsDottedQuad(tx[t].ip))
      => /\ tx[t].socket = "none"
         /\ tx[t].send = "none"
         /\ tx[t].promise.state = "rejected"
         /\ tx[t].promise.kind = "InvalidArgument"

(***************************************************************************)
(* C10: for a valid address, a given port and an opcode of the type, the   *)
(* packet request() sends is 'SAMP', the four octets, the port's low byte, *)
(* its high byte and the opcode's character code, and reading the packet   *)
(* back gives the octets, the port and the opcode.  As claimed, for every  *)
(* port of 0..65535; as amended, for every port of 1..65535.               *)
(***************************************************************************)
PacketCarries(t, port) ==
  LET packet == tx[t].packet
      bs == BitStreamFrom(packet)
      magic == readBytes(bs, 4)
      o1 == readUInt8(magic.bs)
      o2 == readUInt8(o1.bs)
      o3 == readUInt8(o2.bs)
      o4 == readUInt8(o3.bs)
      low == readUInt8(o4.bs)
      high == readUInt8(low.bs)
      op == readUInt8(high.bs)
  IN  /\ Len(packet) = 11
      /\ packet = <<83, 65, 77, 80>> \o Octets(tx[t].ip)
                    \o <<port % 256, (port \div 256) % 256, CharCode(tx[t].opcode)>>
      /\ ~Threw(op.bs)
      /\ Remaining(op.bs) = 0
      /\ magic.value = <<83, 65, 77, 80>>
      /\ <<o1.value, o2.value, o3.value, o4.value>> = Octets(tx[t].ip)
      /\ low.value + 256 * high.value = port
      /\ op.value = CharCode(tx[t].opcode)

C10_PacketOfGivenPort ==
  \A t \in Tx :
    (Started(t) /\ IsDottedQuad(tx[t].ip) /\ tx[t].opcode \in Opcodes
       /\ IsSet(Get(tx[t].given).port))
      => PacketCarries(t, Get(Get(tx[t].given).port))

C10_PacketOfNonzeroPort ==
  \A t \in Tx :
    (Started(t) /\ IsDottedQuad(tx[t].ip) /\ tx[t].opcode \in Opcodes
       /\ IsSet(Get(tx[t].given).port) /\ Get(Get(tx[t].given).port) \in 1..65535)
      => PacketCarries(t, Get(Get(tx[t].given).port))

C10_Witness ==
  \E t \in Tx : /\ Started(t)
                /\ tx[t].ip = <<"1", "9", "2", ".", "1", "6", "8", ".", "1", ".", "2", "5", "5">>
                /\ Get(tx[t].given).port = Some(8904)
                /\ tx[t].opcode = "r"
                /\ tx[t].packet = <<83, 65, 77, 80, 192, 168, 1, 255, 200, 34, 114>>

(***************************************************************************)
(* C11: a port outside 0..65535 makes request() fail with an error about   *)
(* the argument, with nothing sent and no socket left open.                *)
(***************************************************************************)
C11_PortOutOfRangeRejected ==
  \A t \in Tx :
    (tx[t].pc \in {"running", "threw"} /\ tx[t].promise.kind # "ResolveError"
       /\ (tx[t].port < 0 \/ tx[t].port > 65535))
      => /\ tx[t].promise.state = "rejected"
         /\ tx[t].promise.kind \in {"InvalidArgument", "BadPort"}
         /\ tx[t].send = "none"
         /\ tx[t].socket # "open"

(***************************************************************************)
(* C12: two concurrent calls of request() on one instance do not           *)
(* interfere: a step changes the state of one transaction at most, a       *)
(* result is the decoding of the datagram the transaction's own socket     *)
(* received under its own opcode, a host-unavailable error comes from its  *)
(* own timer and names its own target, and each socket is closed by its    *)
(* own transaction only.                                                   *)
(***************************************************************************)
C12_OwnOutcome ==
  \A t \in ConcTx :
    /\ tx[t].promise.state = "resolved" =>
         /\ Received(t)
         /\ tx[t].promise.value = DecodeReply(tx[t].opcode, Datagram(t)).value
    /\ tx[t].promise.kind = "HostUnavailable" =>
         /\ tx[t].controller = "fired"
         /\ tx[t].promise.settledAt >= tx[t].armedAt + tx[t].timeout
         /\ tx[t].promise.value = tx[t].sentTo
    /\ tx[t].socket = "closed" =>
         (Received(t) \/ tx[t].controller = "fired" \/ tx[t].send = "failed")
    /\ tx[t].controller = "cleared" => Received(t)

C12_NoInterference ==
  /\ []C12_OwnOutcome
  /\ [][\A t \in ConcTx : \A u \in ConcTx \ {t} :
          tx'[t] # tx[t] => tx'[u] = tx[u]]_vars

C12_Witness ==
  /\ tx[1].promise.state = "resolved"
  /\ tx[2].promise.kind = "HostUnavailable"
  /\ tx[1].closeCalls = 1
  /\ tx[2].closeCalls = 1
  /\ tx[2].armedAt < tx[1].promise.settledAt
  /\ tx[1].armedAt < tx[2].promise.settledAt

(***************************************************************************)
(* C13: for opcode r, a well-formed reply of n (name, value) pairs makes   *)
(* request() resolve with exactly those n pairs, in wire order, each name  *)
(* and value the decoded bytes of its field.                               *)
(***************************************************************************)
C13_RulesDecoded ==
  \A t \in Tx : \A q \in SeqsUpTo(RuleValues, MaxCount) :
    (tx[t].opcode = "r" /\ tx[t].received = Some(EchoHeader \o RulesPayload(q)))
      => /\ tx[t].promise.state = "resolved"
         /\ tx[t].promise.value = RulesResult(q)
         /\ Len(tx[t].promise.value) = Len(q)

C13_Witness ==
  \E t \in Tx :
    /\ tx[t].opcode = "r"
    /\ tx[t].received = Some(EchoHeader \o RulesPayload(
                               <<[name |-> <<109, 97>>, value |-> <<76, 83>>],
                                 [name |-> <<119>>, value |-> <<>>]>>))
    /\ tx[t].promise.state = "resolved"
    /\ Len(tx[t].promise.value) = 2
    /\ tx[t].promise.value[1].name = <<109, 97>>
    /\ tx[t].promise.value[2].name = <<119>>

(***************************************************************************)
(* C14: for opcode i, a well-formed reply makes request() resolve with     *)
(* {closed, players, maxPlayers, serverName, gameModeName, language} read  *)
(* left to right from the payload: closed is true iff its byte is not 0,   *)
(* the two numbers are the uint16 values, and the three text fields are    *)
(* assigned in the order serverName, gameModeName, language.               *)
(***************************************************************************)
C14_InfoDecoded ==
  \A t \in Tx : \A v \in InfoValues :
    (tx[t].opcode = "i" /\ tx[t].received = Some(EchoHeader \o InfoPayload(v)))
      => /\ tx[t].promise.state = "resolved"
         /\ tx[t].promise.value = InfoResult(v)
         /\ DOMAIN tx[t].promise.value =
              {"closed", "players", "maxPlayers", "serverName", "gameModeName", "language"}
         /\ tx[t].promise.value.closed = (v.closed # 0)

C14_Witness ==
  \E t \in Tx :
    /\ tx[t].opcode = "i"
    /\ Received(t)
    /\ tx[t].promise.state = "resolved"
    /\ tx[t].promise.value.closed = TRUE
    /\ tx[t].promise.value.players = 300
    /\ tx[t].promise.value.gameModeName = <<>>
    /\ tx[t].promise.value.language = <<82>>

(***************************************************************************)
(* C15: for opcodes r, d and c, a reply whose count is 0 makes request()   *)
(* resolve with the empty sequence; it is not an error.                    *)
(***************************************************************************)
C15_EmptyListResolves ==
  \A t \in Tx :
    (tx[t].opcode \in {"r", "d", "c"} /\ tx[t].received = Some(EchoHeader \o <<0, 0>>))
      => /\ tx[t].promise.state = "resolved"
         /\ tx[t].promise.value = <<>>

C15_Witness ==
  \E t \in Tx :
    /\ tx[t].opcode = "d"
    /\ tx[t].received = Some(EchoHeader \o <<0, 0>>)
    /\ tx[t].promise.state = "resolved"
    /\ tx[t].promise.value = <<>>
    /\ tx[t].socket = "closed"

(***************************************************************************)
(* C16: an address, port or timeout given neither to the call nor to the   *)
(* instance is 127.0.0.1, 7777 or 2000 ms; a value that is given, the      *)
(* call's before the instance's, is the one the packet carries, the send   *)
(* goes to and the timer is armed with.  As claimed, for every given       *)
(* value; as amended, for every given value other than 0 and the empty     *)
(* string, in whose place the default is used.                             *)
(***************************************************************************)
\* the value given for a property: the call's, else the instance's, else none
Supplied(t) ==
  LET g == Get(tx[t].given)
  IN  [ip |-> IF IsSet(g.ip) THEN g.ip ELSE options.ip,
       port |-> IF IsSet(g.port) THEN g.port ELSE options.port,
       timeout |-> IF IsSet(g.timeout) THEN g.timeout ELSE options.timeout]

\* the transaction was sent to ip:port, with port in the packet, and its
\* timer is armed with timeout
Uses(t, ip, port, timeout) ==
  /\ tx[t].send # "none"
  /\ tx[t].sentTo = [ip |-> ip, port |-> port]
  /\ Len(tx[t].packet) = 11
  /\ SubSeq(tx[t].packet, 9, 10) = <<port % 256, (port \div 256) % 256>>
  /\ (Octets(ip) # <<>> => SubSeq(tx[t].packet, 5, 8) = Octets(ip))
  /\ tx[t].controller = "armed"
  /\ tx[t].timeout = timeout

C16_GivenOrDefault ==
  \A t \in Tx :
    (Started(t) /\ tx[t].lookups = 0) =>
      LET v == Supplied(t)
      IN  Uses(t, IF IsSet(v.ip) THEN Get(v.ip) ELSE Loopback,
                  IF IsSet(v.port) THEN Get(v.port) ELSE 7777,
                  IF IsSet(v.timeout) THEN Get(v.timeout) ELSE 2000)

C16_TruthyGivenOrDefault ==
  \A t \in Tx :
    (Started(t) /\ tx[t].lookups = 0) =>
      LET v == Supplied(t)
      IN  Uses(t, IF IsSet(v.ip) /\ Get(v.ip) # <<>> THEN Get(v.ip) ELSE Loopback,
                  IF IsSet(v.port) /\ Get(v.port) # 0 THEN Get(v.port) ELSE 7777,
                  IF IsSet(v.timeout) /\ Get(v.timeout) # 0 THEN Get(v.timeout) ELSE 2000)

C16_Witness ==
  \E t \in Tx :
    /\ Started(t)
    /\ tx[t].lookups = 0
    /\ Get(tx[t].given).port = Some(8904)
    /\ Get(tx[t].given).timeout = None
    /\ Get(tx[t].given).ip = None
    /\ options.port = Some(256)
    /\ options.timeout = Some(3000)
    /\ tx[t].sentTo = [ip |-> <<"1", "0", ".", "0", ".", "0", ".", "7">>, port |-> 8904]
    /\ tx[t].timeout = 3000
    /\ SubSeq(tx[t].packet, 5, 10) = <<10, 0, 0, 7, 200, 34>>

(***************************************************************************)
(* C17: terminal outcomes are final: once a transaction has settled, no    *)
(* later event of it (the timer firing after a send failure, the send      *)
(* callback after a reply, a further datagram) changes its outcome, and    *)
(* the transaction is never retried or sent again: its packet and target   *)
(* stay, no send is started, no timer armed, no socket opened and no       *)
(* second datagram taken.                                                  *)
(***************************************************************************)
C17_OutcomeFinal ==
  [][\A t \in Tx :
       Settled(t) =>
         /\ tx'[t].promise = tx[t].promise
         /\ tx'[t].pc = tx[t].pc
         /\ tx'[t].packet = tx[t].packet
         /\ tx'[t].sentTo = tx[t].sentTo
         /\ (tx'[t].send = "pending" => tx[t].send = "pending")
         /\ (tx'[t].controller = "armed" => tx[t].controller = "armed")
         /\ tx'[t].armedAt = tx[t].armedAt
         /\ (tx'[t].socket = "open" => tx[t].socket = "open")
         /\ (Received(t) => tx'[t].received = tx[t].received)]_vars

\* the send callback reported an error after the reply had been decoded, and
\* the result stayed
C17_Witness ==
  \E t \in Tx :
    /\ tx[t].promise.state = "resolved"
    /\ Received(t)
    /\ tx[t].send = "failed"
    /\ tx[t].closeCalls = 2

(***************************************************************************)
(* C18: at most one datagram is processed per transaction, and the socket  *)
(* is released as soon as that datagram is consumed, whatever its length:  *)
(* once a datagram has been received the listener is gone and the socket   *)
(* is closed.                                                              *)
(***************************************************************************)
C18_SocketReleasedAfterDatagram ==
  \A t \in Tx :
    Received(t) => /\ tx[t].listener = "removed"
                   /\ tx[t].socket = "closed"

(***************************************************************************)
(* C19: getServer() makes its three requests one after the other, with     *)
(* the opcodes i, r, d in this order: a request is made only after the     *)
(* one before it has resolved, no two of them are unsettled at the same    *)
(* time, and if one is rejected the later ones are never made and          *)
(* getServer() is rejected with that rejection.                            *)
(***************************************************************************)
InFlight(t) == tx[t].pc # "idle" /\ ~Settled(t)

C19_GetServerSequential ==
  /\ \A t \in AllTx : tx[t].pc # "idle" => tx[t].opcode = FacadeOpcodes[t]
  /\ \A t \in AllTx \ {1} :
       tx[t].pc # "idle" => /\ tx[t - 1].promise.state = "resolved"
                            /\ (tx[t].controller # "none" =>
                                  tx[t].armedAt >= tx[t - 1].promise.settledAt)
  /\ \A t \in AllTx : \A u \in AllTx \ {t} : ~(InFlight(t) /\ InFlight(u))
  /\ \A t \in AllTx :
       tx[t].promise.state = "rejected" =>
         /\ \A u \in AllTx : u > t => tx[u].pc = "idle"
         /\ facade.promise.state # "resolved"
         /\ facade.pc = "done" =>
              /\ facade.promise.state = "rejected"
              /\ facade.promise.kind = tx[t].promise.kind
              /\ facade.promise.value = tx[t].promise.value
  /\ facade.promise.state = "rejected" =>
       \E t \in AllTx : tx[t].promise.state = "rejected"
  /\ facade.promise.state = "resolved" =>
       \A t \in AllTx : tx[t].promise.state = "resolved"

C19_Witness ==
  /\ tx[1].promise.state = "resolved"
  /\ tx[2].promise.kind = "HostUnavailable"
  /\ tx[2].armedAt > 0
  /\ tx[3].pc = "idle"
  /\ facade.pc = "done"
  /\ facade.promise.kind = "HostUnavailable"

(***************************************************************************)
(* C20: the address is resolved only when resolveHost is true (the call's  *)
(* value, else the instance's, else false), and then before any socket is  *)
(* created; otherwise the address is used as given.  When the resolution   *)
(* fails, request() is rejected with the resolver's error and no socket    *)
(* is created, no packet built or sent and no timer armed.                 *)
(***************************************************************************)
ResolveHostOf(t) ==
  LET g == Get(tx[t].given)
  IN  IF IsSet(g.resolveHost) THEN Get(g.resolveHost)
      ELSE IF IsSet(options.resolveHost) THEN Get(options.resolveHost)
      ELSE FALSE

NothingStarted(t) ==
  /\ tx[t].socket = "none"
  /\ tx[t].closeCalls = 0
  /\ tx[t].packet = <<>>
  /\ tx[t].send = "none"
  /\ tx[t].controller = "none"
  /\ tx[t].listener = "none"

====
